---- MODULE Spec2Model ----
(***************************************************************************)
(* SSH Brute Force Defender (src/problem-4/level-1.py) and the price       *)
(* trackers (src/problem-1/level-2.py, level-3.py).                        *)
(*                                                                         *)
(* The model covers the FirewallController (backend detection, block_ip    *)
(* and its two backends), the SecurityMonitor (record_failure: whitelist,  *)
(* blocked set, sliding window, threshold), the timestamp handling of      *)
(* SSHLogParser._process_log_entry and the monitoring threads started and  *)
(* stopped by SSHLogParser.                                                *)
(*                                                                         *)
(* Time is in seconds.  datetime values of the detector are integers; the  *)
(* calendar arithmetic of the parser is modelled on year, month, day and   *)
(* <<hour, minute, second>>.                                               *)
(*                                                                         *)
(* Spec feeds the detector with record_failure calls, SpecGateway calls    *)
(* block_ip directly, SpecParse runs the timestamp handling on one matched *)
(* line, SpecMain runs the parser threads over the lines sshd logs,        *)
(* SpecPipeline does so with one configuration, SpecLifecycle adds a log   *)
(* source that fails or goes away, with fair scheduling of the threads,    *)
(* and SpecFaults adds a firewall command that hangs and a log file that   *)
(* is truncated.  SpecTrackers runs PriceTracker.track_prices over the     *)
(* products of the API and StealthPriceTracker.track_product over its      *)
(* retry loop.                                                             *)
(***************************************************************************)
EXTENDS Integers, Sequences, FiniteSets, TLC

VARIABLES
    failure_threshold,  \* SecurityMonitor.failure_threshold
    time_window,        \* SecurityMonitor.time_window
    safe_ips,           \* SecurityMonitor.safe_ips
    failures_by_ip,     \* SecurityMonitor.failures_by_ip (defaultdict(list))
    blocked_ips,        \* SecurityMonitor.blocked_ips
    now,                \* the wall clock read by datetime.now()
    simulation_mode,    \* FirewallController.simulation_mode
    firewall_system,    \* FirewallController.firewall_system
    ufw_probe,          \* what `ufw status` answered at construction
    iptables_probe,     \* what `iptables --version` answered at construction
    rules,              \* the host firewall: number of DROP rules per address
    blockLog,           \* per address: the block_ip invocations made, in order
    last,               \* the last call made and what it did
    onTime,             \* every failure so far was recorded at its own timestamp
    entry,              \* _process_log_entry: source type and matched timestamp text
    clock,              \* _process_log_entry: the date and time when it is entered
    parsed,             \* _process_log_entry: what the timestamp handling produced
    is_active,          \* SSHLogParser.is_active
    monitor_thread,     \* SSHLogParser.monitor_thread: 0 for None, else index in threads
    threads,            \* the monitoring threads started so far
    lines,              \* the lines sshd has logged so far (file and journal)
    auth_log_ok,        \* /var/log/auth.log exists and is readable
    journalctl_ok,      \* `journalctl --version` succeeds
    caller,             \* the thread calling start/stop: "idle", "joining" or "exited"
    tracker,            \* the price tracker that runs: "PriceTracker", "StealthPriceTracker"
    product_history,    \* self.product_history of the tracker: product -> last price
    rows,               \* the rows appended to the CSV file, as [product, price]
    products,           \* PriceTracker.track_prices: the products of the iteration still to do
    call,               \* StealthPriceTracker.track_product: the call in progress
    drivers,            \* quit() calls made on each driver the call has initialized
    max_retries,        \* self.config.get('max_retries', 3)
    observed,           \* what the last product check did
    checks              \* product checks made so far

detectorVars == <<failure_threshold, time_window, safe_ips, failures_by_ip, blocked_ips>>
gatewayVars == <<simulation_mode, firewall_system, ufw_probe, iptables_probe>>
hostVars == <<rules, blockLog>>
parseVars == <<entry, clock, parsed>>
parserVars == <<is_active, monitor_thread, threads, lines, auth_log_ok, journalctl_ok, caller>>
trackerVars == <<tracker, product_history, rows, products, call, drivers, max_retries,
                 observed, checks>>
vars == <<detectorVars, gatewayVars, hostVars, now, last, onTime, parseVars, parserVars,
          trackerVars>>

----------------------------------------------------------------------------
(* Bounds of the model *)

MaxHist == 3         \* longest failure history a call may extend
MaxBlockCalls == 2   \* block_ip invocations explored per address
MaxThreshold == 3    \* largest failure_threshold explored
MaxStarts == 2       \* monitoring threads started in one behaviour
MaxLines == 2        \* lines logged by sshd in one behaviour
TimeStep == 10       \* the short distance between two clock readings
DefaultThreshold == 5
DefaultWindow == 60

IPs == {"10.0.0.1", "10.0.0.2"}
Times == {0, TimeStep, DefaultWindow + TimeStep}
Thresholds == 0..MaxThreshold
Windows == {0, TimeStep, DefaultWindow}
Whitelists == {{}, {"10.0.0.2"}}

\* the hosts the detector is run on: simulation, and each backend for real
Hosts == {<<TRUE, "missing", "missing">>, <<FALSE, "active", "ok">>,
          <<FALSE, "inactive", "ok">>, <<FALSE, "missing", "fail">>}

\* outcome of one external firewall command: exit code 0, exit code # 0,
\* or an exception raised by subprocess.run / os.system

Outcomes == {"ok", "fail", "raise"}

----------------------------------------------------------------------------
(* FirewallController *)

\* a variant that tries iptables before UFW
DetectIptablesFirst(ufw, ipt) ==
    IF ipt = "ok" THEN "iptables"
    ELSE IF ufw = "active" THEN "ufw"
    ELSE "none"

\* _detect_available_firewall: UFW first, iptables second, else 'none'.
\* ufw is "active" (exit 0 and 'Status: active'), "inactive" or "missing";
\* ipt is "ok" (exit 0), "fail" or "missing".
DetectAvailableFirewall(ufw, ipt) ==
    IF ufw = "active" THEN "ufw"
    ELSE IF ipt = "ok" THEN "iptables"
    ELSE "none"

\* The effect of one firewall call on the host: the returned value, whether an
\* exception escaped, the rules afterwards for the address, add-rule commands
\* run and external commands run.
Effect(res, rsd, n, adds, ext) ==
    [result |-> res, raised |-> rsd, rules |-> n, adds |-> adds, ext |-> ext]

\* _block_with_ufw: one `ufw deny from ip to any`; ufw skips an existing rule
\* and exits 0.  Any exception is caught and gives False.
BlockWithUfw(n, out) ==
    IF out = "ok" THEN Effect(TRUE, FALSE, 1, 1, 1)
    ELSE Effect(FALSE, FALSE, n, 1, 1)

\* a variant that appends the rule without looking for it first
BlockWithIptablesUnchecked(n, out) ==
    IF out = "ok" THEN Effect(TRUE, FALSE, n + 1, 1, 1)
    ELSE Effect(FALSE, FALSE, n, 1, 1)

\* _block_with_iptables: `iptables -C` first; if the rule exists return True
\* without adding; else `iptables -A`, which appends one more rule.
BlockWithIptables(n, out) ==
    IF n > 0 THEN Effect(TRUE, FALSE, n, 0, 1)
    ELSE IF out = "ok" THEN Effect(TRUE, FALSE, n + 1, 1, 2)
    ELSE Effect(FALSE, FALSE, n, 1, 2)

\* a variant that runs the backend in simulation mode too
BlockIpIgnoringSimulation(sim, fw, n, out) ==
    IF fw = "ufw" THEN BlockWithUfw(n, out)
    ELSE IF fw = "iptables" THEN BlockWithIptables(n, out)
    ELSE Effect(FALSE, FALSE, n, 0, 0)

\* a variant whose disabled gateway reports success
BlockIpDisabledSucceeds(sim, fw, n, out) ==
    IF sim THEN Effect(TRUE, FALSE, n, 0, 0)
    ELSE IF fw = "ufw" THEN BlockWithUfw(n, out)
    ELSE IF fw = "iptables" THEN BlockWithIptables(n, out)
    ELSE Effect(TRUE, FALSE, n, 0, 0)

\* block_ip: simulation mode first, then dispatch on the detected backend.
BlockIp(sim, fw, n, out) ==
    IF sim THEN Effect(TRUE, FALSE, n, 0, 0)
    ELSE IF fw = "ufw" THEN BlockWithUfw(n, out)
    ELSE IF fw = "iptables" THEN BlockWithIptables(n, out)
    ELSE Effect(FALSE, FALSE, n, 0, 0)

----------------------------------------------------------------------------
(* What the calls did so far (read off blockLog) *)

RECURSIVE SumField(_, _)
SumField(entries, f) ==
    IF entries = <<>> THEN 0 ELSE entries[1][f] + SumField(Tail(entries), f)

\* invocations of block_ip for an address
BlockCalls(ip) == Len(blockLog[ip])
\* add-rule commands run for an address (ufw deny / iptables -A)
AddCalls(ip) == SumField(blockLog[ip], "adds")
\* external commands run by block_ip for an address (checks and adds)
ExtCalls(ip) == SumField(blockLog[ip], "ext")

\* one entry of blockLog: whether the rule existed when block_ip was called, and
\* what the call did
LogEntry(n, eff) ==
    [existed |-> n > 0, adds |-> eff.adds, ext |-> eff.ext,
     result |-> eff.result, raised |-> eff.raised]

----------------------------------------------------------------------------
(* SecurityMonitor *)

\* failures_by_ip[ip] of a defaultdict(list), read without creating the key
History(ip) == IF ip \in DOMAIN failures_by_ip THEN failures_by_ip[ip] ELSE <<>>

\* cutoff = datetime.now() - timedelta(seconds=self.time_window)
Cutoff(t, window) == t - window

\* a variant that keeps the entry exactly at the cutoff
KeepRecentInclusive(h, cutoff) == SelectSeq(h, LAMBDA ts : ts >= cutoff)

\* [ts for ts in self.failures_by_ip[ip] if ts > cutoff]
KeepRecent(h, cutoff) == SelectSeq(h, LAMBDA ts : ts > cutoff)

\* a variant that blocks one failure late
ThresholdExceeded(count, threshold) == count > threshold

\* failure_count >= self.failure_threshold
ThresholdReached(count, threshold) == count >= threshold

\* a variant without the early return for blocked addresses
SkippedIfSafe(ip) == ip \in safe_ips

\* a variant without the early return for whitelisted addresses
SkippedIfBlocked(ip) == ip \in blocked_ips

\* the early returns of record_failure
Skipped(ip) == ip \in safe_ips \/ ip \in blocked_ips

\* a variant that marks the address blocked whatever block_ip returned
BlockedAfterAnyResult(blocked, ip, result) == blocked \cup {ip}

\* if self.firewall.block_ip(ip): self.blocked_ips.add(ip)
BlockedAfter(blocked, ip, result) == IF result THEN blocked \cup {ip} ELSE blocked

\* a variant that keeps the history of an address it has just blocked
HistoryKeptAfterBlock(kept, result) == kept

\* ... and self.failures_by_ip[ip] = [] in the same branch
HistoryAfter(kept, result) == IF result THEN <<>> ELSE kept

\* a variant that prunes the history of every address on each call
SetHistoryPruningAll(ip, h) ==
    [a \in (DOMAIN failures_by_ip) \cup {ip} |->
        IF a = ip THEN h
        ELSE KeepRecent(failures_by_ip[a], Cutoff(now, time_window))]

\* self.failures_by_ip[ip] = ...: an assignment to the one key ip
SetHistory(ip, h) ==
    [a \in (DOMAIN failures_by_ip) \cup {ip} |->
        IF a = ip THEN h ELSE failures_by_ip[a]]

\* last: the operation, its arguments, whether it returned early, the entries
\* it evicted (one of them exactly at the cutoff?) and kept, whether it invoked block_ip and what block_ip returned
NoCall == [op |-> "none", ip |-> "", ts |-> 0, skipped |-> FALSE, evicted |-> 0,
           atCutoff |-> FALSE, count |-> 0, invoked |-> FALSE, result |-> FALSE]

\* record_failure(ip, timestamp); out is the outcome of the firewall command
\* block_ip runs, if it runs one.
record_failure(ip, ts, out) ==
    /\ onTime' = (onTime /\ ts = now)
    /\ IF Skipped(ip)
       THEN /\ UNCHANGED <<failures_by_ip, blocked_ips, hostVars>>
            /\ last' = [NoCall EXCEPT !.op = "record_failure", !.ip = ip, !.ts = ts,
                                      !.skipped = TRUE]
       ELSE LET kept == KeepRecent(Append(History(ip), ts), Cutoff(now, time_window))
                reached == ThresholdReached(Len(kept), failure_threshold)
                eff == BlockIp(simulation_mode, firewall_system, rules[ip], out)
            IN  /\ IF reached
                   THEN /\ blockLog' = [blockLog EXCEPT
                                           ![ip] = Append(@, LogEntry(rules[ip], eff))]
                        /\ rules' = [rules EXCEPT ![ip] = eff.rules]
                        /\ blocked_ips' = BlockedAfter(blocked_ips, ip, eff.result)
                        /\ failures_by_ip' = SetHistory(ip, HistoryAfter(kept, eff.result))
                   ELSE /\ failures_by_ip' = SetHistory(ip, kept)
                        /\ UNCHANGED <<blocked_ips, hostVars>>
                /\ last' = [op |-> "record_failure", ip |-> ip, ts |-> ts,
                            skipped |-> FALSE,
                            evicted |-> Len(History(ip)) + 1 - Len(kept),
                            atCutoff |-> \E i \in 1..Len(History(ip)) :
                                            History(ip)[i] = Cutoff(now, time_window),
                            count |-> Len(kept), invoked |-> reached,
                            result |-> reached /\ eff.result]

\* a call of record_failure from outside the parser
RecordFailure(ip, ts, out) ==
    /\ Len(History(ip)) < MaxHist
    /\ BlockCalls(ip) < MaxBlockCalls
    /\ record_failure(ip, ts, out)
    /\ UNCHANGED <<failure_threshold, time_window, safe_ips, gatewayVars, now, parseVars, trackerVars,
                   parserVars>>

\* the wall clock moves on between two calls
Tick ==
    /\ \E t \in Times : t > now /\ now' = t
    /\ UNCHANGED <<detectorVars, gatewayVars, hostVars, last, onTime, parseVars, trackerVars, parserVars>>

----------------------------------------------------------------------------
(* SSHLogParser._process_log_entry: the timestamp of a matched line *)

\* A datetime is [y, m, d, t] with t = <<hour, minute, second>>.  The matched
\* text of an auth.log line is [b, d, t] (month word, day, time); that of a
\* journald line is [y, m, d, t].  The patterns match any three word
\* characters as the month and any digits as the numbers.

MonthNumber(b) ==
    CASE b = "Jan" -> 1 [] b = "Feb" -> 2 [] b = "Mar" -> 3 [] b = "Dec" -> 12
      [] OTHER -> 0

IsLeap(y) == (y % 4 = 0 /\ y % 100 # 0) \/ y % 400 = 0

DaysInMonth(y, m) ==
    IF m = 2 THEN (IF IsLeap(y) THEN 29 ELSE 28)
    ELSE IF m \in {4, 6, 9, 11} THEN 30 ELSE 31

\* what datetime() accepts
ValidDate(y, m, d) ==
    y >= 1000 /\ y <= 9999 /\ m >= 1 /\ m <= 12 /\ d >= 1 /\ d <= DaysInMonth(y, m)
ValidTime(t) == t[1] <= 23 /\ t[2] <= 59 /\ t[3] <= 59

RECURSIVE DaysBeforeMonth(_, _)
DaysBeforeMonth(y, m) ==
    IF m <= 1 THEN 0 ELSE DaysInMonth(y, m - 1) + DaysBeforeMonth(y, m - 1)

DaysBeforeYear(y) ==
    (y - 1) * 365 + ((y - 1) \div 4) - ((y - 1) \div 100) + ((y - 1) \div 400)

\* datetime.toordinal(): days since 0001-01-01, and the second of the day
Ordinal(dt) == DaysBeforeYear(dt.y) + DaysBeforeMonth(dt.y, dt.m) + dt.d
SecondOfDay(dt) == dt.t[1] * 3600 + dt.t[2] * 60 + dt.t[3]

\* a > b + timedelta(days=n)
LaterThan(a, b, n) ==
    \/ Ordinal(a) > Ordinal(b) + n
    \/ Ordinal(a) = Ordinal(b) + n /\ SecondOfDay(a) > SecondOfDay(b)

ValueError == [error |-> "ValueError"]

\* datetime.strptime on the fields the format extracts
Strptime(y, m, d, t) ==
    IF ValidDate(y, m, d) /\ ValidTime(t) THEN [y |-> y, m |-> m, d |-> d, t |-> t]
    ELSE ValueError

\* timestamp.replace(year=y)
ReplaceYear(dt, y) ==
    IF ValidDate(y, dt.m, dt.d) THEN [dt EXCEPT !.y = y] ELSE ValueError

\* a variant that takes every timestamp later than now for last year's
LaterThanNow(dt, current) == LaterThan(dt, current, 0)

\* timestamp > datetime.now() + timedelta(days=1)
MoreThanADayAhead(dt, current) == LaterThan(dt, current, 1)

\* the year rollover of an auth.log timestamp
Rollover(dt, current_year, current) ==
    IF MoreThanADayAhead(dt, current) THEN ReplaceYear(dt, current_year - 1) ELSE dt

\* the try block of _process_log_entry: current_year is the year read first,
\* current the clock read for the comparison; ValueError stands for the except
\* branch, in which record_failure is not called
ParseTimestamp(source_type, text, current_year, current) ==
    IF source_type = "auth_log"
    THEN LET dt == Strptime(current_year, MonthNumber(text.b), text.d, text.t)
         IN  IF dt = ValueError THEN ValueError ELSE Rollover(dt, current_year, current)
    ELSE Strptime(text.y, text.m, text.d, text.t)

\* one second later, for a clock read just before midnight
NextSecond(dt) ==
    IF dt.t # <<23, 59, 59>> THEN [dt EXCEPT !.t = <<dt.t[1], dt.t[2], dt.t[3] + 1>>]
    ELSE IF dt.d < DaysInMonth(dt.y, dt.m)
         THEN [dt EXCEPT !.d = dt.d + 1, !.t = <<0, 0, 0>>]
    ELSE IF dt.m < 12 THEN [dt EXCEPT !.m = dt.m + 1, !.d = 1, !.t = <<0, 0, 0>>]
    ELSE [y |-> dt.y + 1, m |-> 1, d |-> 1, t |-> <<0, 0, 0>>]

\* no price tracker runs
NoCheck == [product |-> "", outcome |-> "none"]
NoTracker ==
    /\ tracker = "none"
    /\ product_history = <<>>
    /\ rows = <<>>
    /\ products = <<>>
    /\ call = [pc |-> "idle"]
    /\ drivers = <<>>
    /\ max_retries = 0
    /\ observed = NoCheck
    /\ checks = 0

NoEntry == entry = [source |-> "none"] /\ clock = [y |-> 0] /\ parsed = [state |-> "none"]

FirstYear == 2023
YearsAhead == 2
ClockTimes == {<<0, 0, 0>>, <<12, 0, 0>>, <<23, 59, 59>>}
TextTimes == {<<0, 0, 0>>, <<0, 0, 1>>, <<12, 0, 0>>, <<23, 59, 59>>, <<23, 59, 60>>,
              <<24, 0, 0>>}
Clocks == {dt \in [y : FirstYear..FirstYear + YearsAhead, m : {1, 2, 12},
                   d : {1, 2, 28, 29, 31}, t : ClockTimes] : ValidDate(dt.y, dt.m, dt.d)}
AuthLogTexts == [b : {"Jan", "Feb", "Dec", "Foo"}, d : {0, 1, 2, 29, 31, 32},
                 t : TextTimes]
JournaldTexts == [y : {23, FirstYear, FirstYear + 1}, m : {0, 1, 2, 12, 13},
                  d : {0, 1, 29, 31, 32}, t : {<<0, 0, 0>>, <<23, 59, 59>>, <<24, 0, 0>>}]

----------------------------------------------------------------------------
(* SSHLogParser: start_monitoring, the monitoring threads, stop_monitoring *)

\* SSHLogParser.__init__, on a host with or without auth.log and journalctl
InitParser(auth, journal) ==
    /\ is_active = FALSE
    /\ monitor_thread = 0
    /\ threads = <<>>
    /\ lines = <<>>
    /\ auth_log_ok = auth
    /\ journalctl_ok = journal
    /\ caller = "idle"

\* a variant that asks journalctl first
JournalctlFirst ==
    IF journalctl_ok THEN "journald" ELSE IF auth_log_ok THEN "auth_log" ELSE "exit"

\* determine_log_source: auth.log first, journalctl second; "exit" is sys.exit(1)
determine_log_source ==
    IF auth_log_ok THEN "auth_log" ELSE IF journalctl_ok THEN "journald" ELSE "exit"

\* `journalctl -f` prints the last entries of the journal before it follows
JournalTail == 10

\* a thread started by start_monitoring; pc is "open" (not yet in the try
\* block), "check" (at `while self.is_active`), "read" (at readline), "block"
\* (inside a firewall command that does not return) or "done".
\* pos is the number of lines behind the read position; held tells whether the
\* thread's file handle is open or its journalctl subprocess is running; lost
\* tells whether the source has gone, after delivering eof lines; end tells
\* how the thread ended: "cancelled" by the loop test, or by an "error"
NewThread(source) ==
    [source |-> source, pc |-> "open", pos |-> 0, held |-> FALSE, lost |-> FALSE,
     eof |-> 0, end |-> "none"]

\* a variant of start_monitoring without the test of the flag
NeverRunning == FALSE

\* `if self.is_active:` at the head of start_monitoring
AlreadyRunning == is_active

\* start_monitoring; last records the call and whether it returned at once
StartMonitoring ==
    /\ caller = "idle"
    /\ Len(threads) < MaxStarts
    /\ last' = [NoCall EXCEPT !.op = "start_monitoring", !.skipped = AlreadyRunning]
    /\ IF AlreadyRunning
       THEN UNCHANGED parserVars
       ELSE /\ is_active' = TRUE
            /\ IF determine_log_source = "exit"
               THEN /\ caller' = "exited"
                    /\ UNCHANGED <<monitor_thread, threads>>
               ELSE /\ threads' = Append(threads, NewThread(determine_log_source))
                    /\ monitor_thread' = Len(threads) + 1
                    /\ caller' = caller
            /\ UNCHANGED <<lines, auth_log_ok, journalctl_ok>>
    /\ UNCHANGED <<detectorVars, gatewayVars, hostVars, now, onTime, parseVars, trackerVars>>

\* `except Exception` of the thread function: the error is logged, is_active is
\* cleared and the thread ends.  Leaving `with open(...)` closes the file;
\* process.terminate() is after the loop and is not reached.
Failed(th) ==
    [th EXCEPT !.pc = "done", !.end = "error",
               !.held = IF th.source = "auth_log" THEN FALSE ELSE th.held]

\* the thread enters its try block: open and seek to the end of the file, or
\* start journalctl; open raises if the file has gone since it was chosen
ThreadOpen(i) ==
    /\ caller # "exited"
    /\ threads[i].pc = "open"
    /\ IF threads[i].source = "auth_log" /\ ~auth_log_ok
       THEN /\ threads' = [threads EXCEPT ![i] = Failed(@)]
            /\ is_active' = FALSE
       ELSE /\ threads' = [threads EXCEPT
                             ![i].pc = "check",
                             ![i].held = TRUE,
                             ![i].pos = IF threads[i].source = "auth_log" THEN Len(lines)
                                        ELSE IF Len(lines) > JournalTail
                                             THEN Len(lines) - JournalTail
                                        ELSE 0]
            /\ UNCHANGED is_active
    /\ UNCHANGED <<monitor_thread, lines, auth_log_ok, journalctl_ok, caller>>
    /\ UNCHANGED <<detectorVars, gatewayVars, hostVars, now, last, onTime, parseVars, trackerVars>>

\* `while self.is_active`: go on to readline, or leave the loop, release the
\* source (end of the with block, process.terminate()) and end
ThreadCheck(i) ==
    /\ caller # "exited"
    /\ threads[i].pc = "check"
    /\ threads' = IF is_active THEN [threads EXCEPT ![i].pc = "read"]
                  ELSE [threads EXCEPT ![i].pc = "done", ![i].end = "cancelled",
                                       ![i].held = FALSE]
    /\ UNCHANGED <<is_active, monitor_thread, lines, auth_log_ok, journalctl_ok, caller>>
    /\ UNCHANGED <<detectorVars, gatewayVars, hostVars, now, last, onTime, parseVars, trackerVars>>

\* the number of lines the source of thread i has delivered so far
Delivered(i) == IF threads[i].lost THEN threads[i].eof ELSE Len(lines)

\* the date and time at which the lines are logged and read
LogClock == [y |-> FirstYear + 1, m |-> 1, d |-> 2, t |-> <<12, 0, 0>>]

\* the timestamp text of a line, as the pattern of the source captures it: that
\* of the moment it was logged, or one that no calendar has
MatchedText(line, source_type) ==
    IF source_type = "auth_log"
    THEN [b |-> "Jan", d |-> IF line.kind = "badtime" THEN 32 ELSE LogClock.d,
          t |-> LogClock.t]
    ELSE [y |-> LogClock.y, m |-> IF line.kind = "badtime" THEN 13 ELSE LogClock.m,
          d |-> LogClock.d, t |-> LogClock.t]

\* a variant without the except branch for ValueError
ProcessLogEntryUnguarded(line, source_type, out) ==
    IF line.kind = "other"
    THEN UNCHANGED <<failures_by_ip, blocked_ips, hostVars, last, onTime>>
    ELSE record_failure(line.ip, line.ts, out)

\* _process_log_entry: a line that does not match the pattern is dropped, and so
\* is a matching one whose timestamp raises ValueError; any other matching line
\* goes to record_failure
ProcessLogEntry(line, source_type, out) ==
    IF line.kind = "other"
    THEN UNCHANGED <<failures_by_ip, blocked_ips, hostVars, last, onTime>>
    ELSE IF ParseTimestamp(source_type, MatchedText(line, source_type),
                           LogClock.y, LogClock) = ValueError
    THEN UNCHANGED <<failures_by_ip, blocked_ips, hostVars, last, onTime>>
    ELSE record_failure(line.ip, line.ts, out)

\* a variant that reads the newest line instead of the next one
NewestLine(i) == Delivered(i)

\* the line readline returns: the first one behind the read position
NextLine(i) == threads[i].pos + 1

\* readline gave a line: _process_log_entry on it, then back to the loop test
ThreadProcess(i, out) ==
    /\ caller # "exited"
    /\ threads[i].pc = "read"
    /\ threads[i].pos < Delivered(i)
    /\ threads' = [threads EXCEPT ![i].pc = "check", ![i].pos = NextLine(i)]
    /\ ProcessLogEntry(lines[NextLine(i)], threads[i].source, out)
    /\ UNCHANGED <<is_active, monitor_thread, lines, auth_log_ok, journalctl_ok, caller>>
    /\ UNCHANGED <<failure_threshold, time_window, safe_ips, gatewayVars, now, parseVars, trackerVars>>

\* readline blocks: the journalctl pipe is open and has nothing to read
Stalled(i) ==
    /\ threads[i].source = "journald"
    /\ threads[i].pc = "read"
    /\ ~threads[i].lost
    /\ threads[i].pos >= Len(lines)

\* readline gave nothing (end of the tailed file, or end of the pipe of a
\* journalctl that has exited): time.sleep(0.1) and back to the loop test
ThreadSleep(i) ==
    /\ caller # "exited"
    /\ threads[i].pc = "read"
    /\ threads[i].pos >= Delivered(i)
    /\ ~Stalled(i)
    /\ threads' = [threads EXCEPT ![i].pc = "check"]
    /\ UNCHANGED <<is_active, monitor_thread, lines, auth_log_ok, journalctl_ok, caller>>
    /\ UNCHANGED <<detectorVars, gatewayVars, hostVars, now, last, onTime, parseVars, trackerVars>>

\* readline raises (an I/O error, bytes that do not decode): the exception
\* leaves the loop and reaches the except branch of the thread function
ThreadReadError(i) ==
    /\ caller # "exited"
    /\ threads[i].pc = "read"
    /\ threads' = [threads EXCEPT ![i] = Failed(@)]
    /\ is_active' = FALSE
    /\ UNCHANGED <<monitor_thread, lines, auth_log_ok, journalctl_ok, caller>>
    /\ UNCHANGED <<detectorVars, gatewayVars, hostVars, now, last, onTime, parseVars, trackerVars>>

\* /var/log/auth.log is removed: the handles open on it deliver nothing more
RemoveAuthLog ==
    /\ auth_log_ok
    /\ auth_log_ok' = FALSE
    /\ threads' = [i \in DOMAIN threads |->
                      IF threads[i].source = "auth_log" /\ threads[i].held
                      THEN [threads[i] EXCEPT !.lost = TRUE, !.eof = Len(lines)]
                      ELSE threads[i]]
    /\ UNCHANGED <<is_active, monitor_thread, lines, journalctl_ok, caller>>
    /\ UNCHANGED <<detectorVars, gatewayVars, hostVars, now, last, onTime, parseVars, trackerVars>>

\* the journalctl subprocess of thread i exits: its pipe ends after the lines
\* written so far
JournalExit(i) ==
    /\ threads[i].source = "journald"
    /\ threads[i].held
    /\ ~threads[i].lost
    /\ threads' = [threads EXCEPT ![i].lost = TRUE, ![i].eof = Len(lines)]
    /\ UNCHANGED <<is_active, monitor_thread, lines, auth_log_ok, journalctl_ok, caller>>
    /\ UNCHANGED <<detectorVars, gatewayVars, hostVars, now, last, onTime, parseVars, trackerVars>>

\* the thread is inside block_ip, in a firewall command that does not return:
\* subprocess.run and os.system are called without a timeout
Hung(i) == threads[i].pc = "block"

\* readline gave a failure line that reaches the threshold, and the firewall
\* command block_ip runs for it hangs: record_failure has appended and pruned
\* the history and is held inside block_ip, and the thread with it
ThreadHang(i) ==
    /\ caller # "exited"
    /\ threads[i].pc = "read"
    /\ threads[i].pos < Delivered(i)
    /\ ~simulation_mode
    /\ firewall_system \in {"ufw", "iptables"}
    /\ LET line == lines[NextLine(i)]
           kept == KeepRecent(Append(History(line.ip), line.ts),
                              Cutoff(now, time_window))
       IN  /\ line.kind = "failure"
           /\ ParseTimestamp(threads[i].source, MatchedText(line, threads[i].source),
                             LogClock.y, LogClock) # ValueError
           /\ ~Skipped(line.ip)
           /\ ThresholdReached(Len(kept), failure_threshold)
           /\ failures_by_ip' = SetHistory(line.ip, kept)
           /\ onTime' = (onTime /\ line.ts = now)
           /\ last' = [op |-> "record_failure", ip |-> line.ip, ts |-> line.ts,
                       skipped |-> FALSE,
                       evicted |-> Len(History(line.ip)) + 1 - Len(kept),
                       atCutoff |-> \E k \in 1..Len(History(line.ip)) :
                                       History(line.ip)[k] = Cutoff(now, time_window),
                       count |-> Len(kept), invoked |-> TRUE, result |-> FALSE]
    /\ threads' = [threads EXCEPT ![i].pc = "block", ![i].pos = NextLine(i)]
    /\ UNCHANGED <<blocked_ips, hostVars, is_active, monitor_thread, lines, auth_log_ok,
                   journalctl_ok, caller>>
    /\ UNCHANGED <<failure_threshold, time_window, safe_ips, gatewayVars, now, parseVars, trackerVars>>

\* /var/log/auth.log is truncated (logrotate copytruncate): the file is empty
\* again and grows from there, while every handle open on it keeps its read
\* position; readline gives nothing until the file has grown past that
\* position.  Lines are taken to be of one length; only file tails are running.
TruncateAuthLog ==
    /\ auth_log_ok
    /\ lines # <<>>
    /\ \A i \in DOMAIN threads : threads[i].source = "auth_log"
    /\ lines' = <<>>
    /\ UNCHANGED <<is_active, monitor_thread, threads, auth_log_ok, journalctl_ok, caller>>
    /\ UNCHANGED <<detectorVars, gatewayVars, hostVars, now, last, onTime, parseVars, trackerVars>>

\* the thread stop_monitoring joins is alive
Alive(i) == i # 0 /\ threads[i].pc # "done"

\* stop_monitoring: clear the flag and, if the thread is alive, join it
StopMonitoring ==
    /\ caller = "idle"
    /\ is_active' = FALSE
    /\ caller' = IF Alive(monitor_thread) THEN "joining" ELSE "idle"
    /\ UNCHANGED <<monitor_thread, threads, lines, auth_log_ok, journalctl_ok>>
    /\ UNCHANGED <<detectorVars, gatewayVars, hostVars, now, last, onTime, parseVars, trackerVars>>

\* a variant of the join without the timeout
JoinWithoutTimeout == ~Alive(monitor_thread)

\* join(timeout=2) returns: the thread has ended, or the two seconds are over
\* because the thread is held in a blocking read or in a firewall command
JoinReturns ==
    ~Alive(monitor_thread) \/ Stalled(monitor_thread) \/ Hung(monitor_thread)

\* stop_monitoring after the join: the exception of join, if any, is passed
\* over, "stopped" is logged and the call returns
StopReturn ==
    /\ caller = "joining"
    /\ JoinReturns
    /\ caller' = "idle"
    /\ UNCHANGED <<is_active, monitor_thread, threads, lines, auth_log_ok, journalctl_ok>>
    /\ UNCHANGED <<detectorVars, gatewayVars, hostVars, now, last, onTime, parseVars, trackerVars>>

\* sshd logs one more line, stamped with the current time: kind is "failure"
\* (matches the pattern), "badtime" (matches, with a timestamp that is no
\* date) or "other" (does not match)
LogLine(kind, ip) ==
    /\ Len(lines) < MaxLines
    /\ lines' = Append(lines, [kind |-> kind, ip |-> ip, ts |-> now])
    /\ UNCHANGED <<is_active, monitor_thread, threads, auth_log_ok, journalctl_ok, caller>>
    /\ UNCHANGED <<detectorVars, gatewayVars, hostVars, now, last, onTime, parseVars, trackerVars>>

----------------------------------------------------------------------------
(* The detector fed by record_failure calls, wired as __main__ wires it *)

\* FirewallController.__init__ on a host answering the probes with ufw and ipt
InitGateway(sim, ufw, ipt) ==
    /\ simulation_mode = sim
    /\ ufw_probe = ufw
    /\ iptables_probe = ipt
    /\ firewall_system = DetectAvailableFirewall(ufw, ipt)

\* SecurityMonitor.__init__
InitMonitor(threshold, window, safe) ==
    /\ failure_threshold = threshold
    /\ time_window = window
    /\ safe_ips = safe
    /\ failures_by_ip = <<>>
    /\ blocked_ips = {}

Init ==
    /\ \E threshold \in Thresholds, window \in Windows, safe \in Whitelists :
          InitMonitor(threshold, window, safe)
    /\ \E h \in Hosts : InitGateway(h[1], h[2], h[3])
    /\ safe_ips = {} => /\ time_window = DefaultWindow
                        /\ firewall_system = "ufw"
                        /\ failure_threshold \in {1, 2}
    /\ now = 0
    /\ rules = [a \in IPs |-> 0]
    /\ blockLog = [a \in IPs |-> <<>>]
    /\ last = NoCall
    /\ onTime = TRUE
    /\ NoEntry
    /\ InitParser(TRUE, TRUE)
    /\ NoTracker

Next ==
    \/ \E ip \in IPs, ts \in Times, out \in Outcomes : RecordFailure(ip, ts, out)
    \/ Tick

Spec == Init /\ [][Next]_vars

----------------------------------------------------------------------------
(* The gateway called directly: block_ip(ip) on any host *)

BlockIpCall(ip, out) ==
    /\ BlockCalls(ip) < MaxBlockCalls
    /\ LET eff == BlockIp(simulation_mode, firewall_system, rules[ip], out)
       IN  /\ blockLog' = [blockLog EXCEPT ![ip] = Append(@, LogEntry(rules[ip], eff))]
           /\ rules' = [rules EXCEPT ![ip] = eff.rules]
           /\ last' = [NoCall EXCEPT !.op = "block_ip", !.ip = ip,
                                     !.invoked = TRUE, !.result = eff.result]
    /\ UNCHANGED <<detectorVars, gatewayVars, now, onTime, parseVars, trackerVars, parserVars>>

\* rules left on the host by an earlier run are still there
InitGatewaySpec ==
    /\ InitMonitor(DefaultThreshold, DefaultWindow, {})
    /\ \E sim \in BOOLEAN, ufw \in {"active", "inactive", "missing"},
          ipt \in {"ok", "fail", "missing"} : InitGateway(sim, ufw, ipt)
    /\ now = 0
    /\ rules \in [IPs -> {0, 1}]
    /\ blockLog = [a \in IPs |-> <<>>]
    /\ last = NoCall
    /\ onTime = TRUE
    /\ NoEntry
    /\ InitParser(TRUE, TRUE)
    /\ NoTracker

NextGateway == \E ip \in IPs, out \in Outcomes : BlockIpCall(ip, out)

SpecGateway == InitGatewaySpec /\ [][NextGateway]_vars

----------------------------------------------------------------------------
(* The timestamp handling run on one matched line *)

\* the timestamp handling of one matched line: the year is read, then the clock
\* is read again for the comparison, at the same second or the next
ProcessTimestamp ==
    /\ parsed.state = "none"
    /\ \E current \in {clock, NextSecond(clock)} :
          parsed' = [state |-> "done", current_year |-> clock.y, current |-> current,
                     timestamp |-> ParseTimestamp(entry.source, entry.text, clock.y, current)]
    /\ UNCHANGED <<detectorVars, gatewayVars, hostVars, now, last, onTime, entry, clock, parserVars, trackerVars>>

InitParse ==
    /\ InitMonitor(DefaultThreshold, DefaultWindow, {})
    /\ InitGateway(TRUE, "missing", "missing")
    /\ now = 0
    /\ rules = [a \in IPs |-> 0]
    /\ blockLog = [a \in IPs |-> <<>>]
    /\ last = NoCall
    /\ onTime = TRUE
    /\ clock \in Clocks
    /\ \/ \E text \in AuthLogTexts : entry = [source |-> "auth_log", text |-> text]
       \/ \E text \in JournaldTexts : entry = [source |-> "journald", text |-> text]
    /\ parsed = [state |-> "none"]
    /\ InitParser(TRUE, TRUE)
    /\ NoTracker

NextParse == ProcessTimestamp

SpecParse == InitParse /\ [][NextParse]_vars

----------------------------------------------------------------------------
(* The program: __main__ builds the monitor, the gateway and the parser and
   starts monitoring; start and stop may be called again *)

MainThresholds == {0, 1, 2}
MainWindows == {0, DefaultWindow}

InitMain ==
    /\ \E threshold \in MainThresholds, window \in MainWindows :
          InitMonitor(threshold, window, {})
    /\ \E sim \in BOOLEAN : InitGateway(sim, "active", "ok")
    /\ now = 0
    /\ rules = [a \in IPs |-> 0]
    /\ blockLog = [a \in IPs |-> <<>>]
    /\ last = NoCall
    /\ onTime = TRUE
    /\ NoEntry
    /\ \E auth \in BOOLEAN, journal \in BOOLEAN : InitParser(auth, journal)
    /\ NoTracker

NextMain ==
    \/ StartMonitoring
    \/ StopMonitoring
    \/ StopReturn
    \/ \E i \in 1..Len(threads) : ThreadOpen(i)
    \/ \E i \in 1..Len(threads) : ThreadCheck(i)
    \/ \E i \in 1..Len(threads), out \in Outcomes : ThreadProcess(i, out)
    \/ \E i \in 1..Len(threads) : ThreadSleep(i)
    \/ \E ip \in IPs : LogLine("failure", ip)
    \/ LogLine("badtime", "10.0.0.1")
    \/ LogLine("other", "")

SpecMain == InitMain /\ [][NextMain]_vars

----------------------------------------------------------------------------
(* The pipeline with one configuration: two failures within the window block
   an address, the firewall command may fail *)

InitPipeline ==
    /\ InitMonitor(2, DefaultWindow, {})
    /\ InitGateway(FALSE, "active", "ok")
    /\ now = 0
    /\ rules = [a \in IPs |-> 0]
    /\ blockLog = [a \in IPs |-> <<>>]
    /\ last = NoCall
    /\ onTime = TRUE
    /\ NoEntry
    /\ \E auth \in BOOLEAN : InitParser(auth, TRUE)
    /\ NoTracker

SpecPipeline == InitPipeline /\ [][NextMain]_vars

----------------------------------------------------------------------------
(* The pipeline tailing /var/log/auth.log on a host whose firewall command
   may hang and whose log file may be truncated *)

InitFaults ==
    /\ InitMonitor(2, DefaultWindow, {})
    /\ \E ufw \in {"active", "inactive"} : InitGateway(FALSE, ufw, "ok")
    /\ now = 0
    /\ rules = [a \in IPs |-> 0]
    /\ blockLog = [a \in IPs |-> <<>>]
    /\ last = NoCall
    /\ onTime = TRUE
    /\ NoEntry
    /\ InitParser(TRUE, TRUE)
    /\ NoTracker

NextFaults ==
    \/ StartMonitoring
    \/ StopMonitoring
    \/ StopReturn
    \/ \E i \in 1..Len(threads) : ThreadOpen(i)
    \/ \E i \in 1..Len(threads) : ThreadCheck(i)
    \/ \E i \in 1..Len(threads), out \in Outcomes : ThreadProcess(i, out)
    \/ \E i \in 1..Len(threads) : ThreadSleep(i)
    \/ \E i \in 1..Len(threads) : ThreadHang(i)
    \/ TruncateAuthLog
    \/ \E ip \in IPs : LogLine("failure", ip)

SpecFaults == InitFaults /\ [][NextFaults]_vars

----------------------------------------------------------------------------
(* The parser on a host whose log source may fail or go away: the lifecycle
   of start_monitoring, the monitoring threads and stop_monitoring *)

InitLifecycle ==
    /\ InitMonitor(DefaultThreshold, DefaultWindow, {})
    /\ InitGateway(TRUE, "missing", "missing")
    /\ now = 0
    /\ rules = [a \in IPs |-> 0]
    /\ blockLog = [a \in IPs |-> <<>>]
    /\ last = NoCall
    /\ onTime = TRUE
    /\ NoEntry
    /\ \E auth \in BOOLEAN, journal \in BOOLEAN : InitParser(auth, journal)
    /\ NoTracker

\* the steps thread i takes by itself
ThreadStep(i) ==
    \/ ThreadOpen(i)
    \/ ThreadCheck(i)
    \/ ThreadProcess(i, "ok")
    \/ ThreadSleep(i)

NextLifecycle ==
    \/ StartMonitoring
    \/ StopMonitoring
    \/ StopReturn
    \/ \E i \in 1..Len(threads) : ThreadOpen(i)
    \/ \E i \in 1..Len(threads) : ThreadCheck(i)
    \/ \E i \in 1..Len(threads) : ThreadProcess(i, "ok")
    \/ \E i \in 1..Len(threads) : ThreadSleep(i)
    \/ \E i \in 1..Len(threads) : ThreadReadError(i)
    \/ \E i \in 1..Len(threads) : JournalExit(i)
    \/ RemoveAuthLog
    \/ LogLine("failure", "10.0.0.1")

\* a started thread is scheduled again and again, and the timeout of the join
\* runs out
Fairness ==
    /\ WF_vars(StopReturn)
    /\ \A i \in 1..MaxStarts : WF_vars(i <= Len(threads) /\ ThreadStep(i))

SpecLifecycle == InitLifecycle /\ [][NextLifecycle]_vars /\ Fairness

----------------------------------------------------------------------------
(* The price trackers (src/problem-1): PriceTracker.track_prices of level-2.py
   and StealthPriceTracker.track_product of level-3.py.  A price is a number;
   a product is its id (level 2) or its URL (level 3), "" when it is missing. *)

MaxRetries == 3      \* largest max_retries explored
MaxChecks == 3       \* product checks made in one behaviour
MaxProducts == 2     \* products returned by one get_all_products call

Products == {"A", "B"}
Prices == {0, 1, 2}

\* everything outside the price trackers
defenderVars ==
    <<detectorVars, gatewayVars, hostVars, now, last, onTime, parseVars, parserVars>>

\* a variant that writes a row at every observation
NeverUnchanged(h, p, price) == FALSE

\* `product in self.product_history and price == self.product_history[product]`
PriceUnchanged(h, p, price) == p \in DOMAIN h /\ h[p] = price

\* record_price: one row appended to the CSV file, then
\* self.product_history[product] = price
RecordPrice(p, price) ==
    /\ rows' = Append(rows, [product |-> p, price |-> price])
    /\ product_history' = [a \in (DOMAIN product_history) \cup {p} |->
                              IF a = p THEN price ELSE product_history[a]]

\* what get_product_price_from_page returns: a price, or (None, None, None)
Scrapes == {[found |-> FALSE, price |-> 0]} \cup {[found |-> TRUE, price |-> q] : q \in Prices}

\* what get_product_details returns: None or an empty dict ("none"), details
\* whose price float() rejects ("bad"), or details with a price (0 when the
\* key is missing)
Details == {[state |-> "none", price |-> 0], [state |-> "bad", price |-> 0]}
              \cup {[state |-> "ok", price |-> q] : q \in Prices}

\* a variant that takes a failed lookup for a price of 0
ResolvePriceOrZero(scrape, details) ==
    IF scrape.found THEN scrape ELSE [found |-> TRUE, price |-> details.price]

\* the price of the loop body of track_prices: that of the page, else that of
\* the API details, else none (`continue`)
ResolvePrice(scrape, details) ==
    IF scrape.found THEN scrape
    ELSE IF details.state = "ok" THEN [found |-> TRUE, price |-> details.price]
    ELSE [found |-> FALSE, price |-> 0]

\* the lists get_all_products may return; [] when the request fails
ProductLists == UNION {[1..n -> Products \cup {""}] : n \in 0..MaxProducts}

\* PriceTracker.track_prices: one iteration starts with get_all_products
GetAllProducts(list) ==
    /\ tracker = "PriceTracker"
    /\ products = <<>>
    /\ checks + Len(list) <= MaxChecks
    /\ products' = list
    /\ UNCHANGED <<tracker, product_history, rows, call, drivers, max_retries, observed,
                   checks>>
    /\ UNCHANGED defenderVars

\* PriceTracker.track_prices: the loop body on the next product of the list;
\* rec tells whether record_price returns ("ok") or raises, which ends
\* track_prices
ProcessProduct(scrape, details, rec) ==
    /\ tracker = "PriceTracker"
    /\ products # <<>>
    /\ LET id == Head(products)
           r == ResolvePrice(scrape, details)
           seen(outcome) == [product |-> id, outcome |-> outcome, price |-> r.price,
                             scraped |-> scrape.found, details |-> details.state]
       IN  IF id = ""
           THEN /\ observed' = seen("no_id")
                /\ UNCHANGED <<tracker, product_history, rows>>
           ELSE IF ~r.found
           THEN /\ observed' = seen("no_price")
                /\ UNCHANGED <<tracker, product_history, rows>>
           ELSE IF PriceUnchanged(product_history, id, r.price)
           THEN /\ observed' = seen("unchanged")
                /\ UNCHANGED <<tracker, product_history, rows>>
           ELSE IF rec = "ok"
           THEN /\ RecordPrice(id, r.price)
                /\ observed' = seen("recorded")
                /\ UNCHANGED tracker
           ELSE /\ tracker' = "failed"
                /\ observed' = seen("raised")
                /\ UNCHANGED <<product_history, rows>>
    /\ products' = Tail(products)
    /\ checks' = checks + 1
    /\ UNCHANGED <<call, drivers, max_retries>>
    /\ UNCHANGED defenderVars

\* a variant that forgets to count the attempt
RetryForgotten(retries) == retries

\* retries += 1
Retry(retries) == retries + 1

\* driver.quit() on driver d
Quit(ds, d) == [ds EXCEPT ![d] = @ + 1]

\* finally: if driver: driver.quit()
Finally(ds, d) == IF d # 0 THEN Quit(ds, d) ELSE ds

\* track_product(product) is called by track_prices; a product without url or
\* site returns at once
TrackProduct(valid, url) ==
    /\ tracker = "StealthPriceTracker"
    /\ call.pc = "idle"
    /\ checks < MaxChecks
    /\ checks' = checks + 1
    /\ IF valid
       THEN /\ call' = [pc |-> "while", url |-> url, retries |-> 0, attempts |-> 0,
                        driver |-> 0]
            /\ drivers' = <<>>
            /\ observed' = [product |-> url, outcome |-> "tracking"]
       ELSE /\ observed' = [product |-> "", outcome |-> "invalid"]
            /\ UNCHANGED <<call, drivers>>
    /\ UNCHANGED <<tracker, product_history, rows, products, max_retries>>
    /\ UNCHANGED defenderVars

\* `while retries < max_retries:` and `driver = None`
LoopTest ==
    /\ call.pc = "while"
    /\ IF call.retries < max_retries
       THEN /\ call' = [call EXCEPT !.pc = "try", !.attempts = @ + 1, !.driver = 0]
            /\ UNCHANGED observed
       ELSE /\ call' = [pc |-> "idle"]
            /\ observed' = [product |-> call.url, outcome |-> "gave_up",
                            attempts |-> call.attempts]
    /\ UNCHANGED <<tracker, product_history, rows, products, drivers, max_retries, checks>>
    /\ UNCHANGED defenderVars

\* driver = self.init_driver(): a new driver, or None (init_driver catches
\* every exception), which counts a retry and continues
InitDriver(out) ==
    /\ call.pc = "try"
    /\ IF out = "ok"
       THEN /\ drivers' = Append(drivers, 0)
            /\ call' = [call EXCEPT !.pc = "navigate", !.driver = Len(drivers) + 1]
       ELSE /\ call' = [call EXCEPT !.pc = "while", !.retries = Retry(@)]
            /\ drivers' = Finally(drivers, call.driver)
    /\ UNCHANGED <<tracker, product_history, rows, products, max_retries, observed, checks>>
    /\ UNCHANGED defenderVars

\* driver.get(url) and handle_captcha(driver).  out is "ok"; "raise" (get
\* raises: except branch, then finally); "captcha" (handle_captcha returns
\* False: retry counted, driver.quit(), continue, then finally with driver
\* still set); or "captcha_quit_raises" (that driver.quit() raises: except
\* branch, then finally)
Navigate(out) ==
    /\ call.pc = "navigate"
    /\ IF out = "ok"
       THEN /\ call' = [call EXCEPT !.pc = "extract"]
            /\ UNCHANGED drivers
       ELSE IF out = "raise"
       THEN /\ call' = [call EXCEPT !.pc = "while", !.retries = Retry(@)]
            /\ drivers' = Finally(drivers, call.driver)
       ELSE IF out = "captcha"
       THEN /\ call' = [call EXCEPT !.pc = "while", !.retries = Retry(@)]
            /\ drivers' = Finally(Quit(drivers, call.driver), call.driver)
       ELSE /\ call' = [call EXCEPT !.pc = "while", !.retries = Retry(Retry(@))]
            /\ drivers' = Finally(Quit(drivers, call.driver), call.driver)
    /\ UNCHANGED <<tracker, product_history, rows, products, max_retries, observed, checks>>
    /\ UNCHANGED defenderVars

\* human_like_scroll, extract_product_data, driver.quit() and driver = None,
\* then the price: None counts a retry; an unchanged price returns; any other
\* is recorded and breaks the loop.  out is "ok"; "raise" (the scroll raises);
\* or "quit_raises" (driver.quit() raises before driver = None); rec tells
\* whether record_price returns or raises
Extract(out, r, rec) ==
    /\ call.pc = "extract"
    /\ IF out = "raise"
       THEN /\ call' = [call EXCEPT !.pc = "while", !.retries = Retry(@)]
            /\ drivers' = Finally(drivers, call.driver)
            /\ UNCHANGED <<product_history, rows, observed>>
       ELSE IF out = "quit_raises"
       THEN /\ call' = [call EXCEPT !.pc = "while", !.retries = Retry(@)]
            /\ drivers' = Finally(Quit(drivers, call.driver), call.driver)
            /\ UNCHANGED <<product_history, rows, observed>>
       ELSE /\ drivers' = Finally(Quit(drivers, call.driver), 0)
            /\ IF ~r.found
               THEN /\ call' = [call EXCEPT !.pc = "while", !.retries = Retry(@),
                                            !.driver = 0]
                    /\ UNCHANGED <<product_history, rows, observed>>
               ELSE IF PriceUnchanged(product_history, call.url, r.price)
               THEN /\ call' = [pc |-> "idle"]
                    /\ observed' = [product |-> call.url, outcome |-> "unchanged",
                                    price |-> r.price, attempts |-> call.attempts]
                    /\ UNCHANGED <<product_history, rows>>
               ELSE IF rec = "ok"
               THEN /\ RecordPrice(call.url, r.price)
                    /\ call' = [pc |-> "idle"]
                    /\ observed' = [product |-> call.url, outcome |-> "recorded",
                                    price |-> r.price, attempts |-> call.attempts]
               ELSE /\ call' = [call EXCEPT !.pc = "while", !.retries = Retry(@),
                                            !.driver = 0]
                    /\ UNCHANGED <<product_history, rows, observed>>
    /\ UNCHANGED <<tracker, products, max_retries, checks>>
    /\ UNCHANGED defenderVars

\* the steps of the track_product call in progress
TrackStep ==
    \/ LoopTest
    \/ \E out \in {"ok", "none"} : InitDriver(out)
    \/ \E out \in {"ok", "raise", "captcha", "captcha_quit_raises"} : Navigate(out)
    \/ \E out \in {"ok", "raise", "quit_raises"}, r \in Scrapes, rec \in {"ok", "raise"} :
          Extract(out, r, rec)

\* one of the two trackers is constructed and run
InitTrackers ==
    /\ InitMonitor(DefaultThreshold, DefaultWindow, {})
    /\ InitGateway(TRUE, "missing", "missing")
    /\ now = 0
    /\ rules = [a \in IPs |-> 0]
    /\ blockLog = [a \in IPs |-> <<>>]
    /\ last = NoCall
    /\ onTime = TRUE
    /\ NoEntry
    /\ InitParser(TRUE, TRUE)
    /\ tracker \in {"PriceTracker", "StealthPriceTracker"}
    /\ product_history = <<>>
    /\ rows = <<>>
    /\ products = <<>>
    /\ call = [pc |-> "idle"]
    /\ drivers = <<>>
    /\ max_retries \in (IF tracker = "StealthPriceTracker" THEN 0..MaxRetries ELSE {0})
    /\ observed = NoCheck
    /\ checks = 0

NextTrackers ==
    \/ \E list \in ProductLists : GetAllProducts(list)
    \/ \E scrape \in Scrapes, details \in Details, rec \in {"ok", "raise"} :
          ProcessProduct(scrape, details, rec)
    \/ \E valid \in BOOLEAN, url \in Products : TrackProduct(valid, url)
    \/ LoopTest
    \/ \E out \in {"ok", "none"} : InitDriver(out)
    \/ \E out \in {"ok", "raise", "captcha", "captcha_quit_raises"} : Navigate(out)
    \/ \E out \in {"ok", "raise", "quit_raises"}, r \in Scrapes, rec \in {"ok", "raise"} :
          Extract(out, r, rec)

\* the call of track_product in progress keeps running
FairTrackers == WF_vars(TrackStep)

SpecTrackers == InitTrackers /\ [][NextTrackers]_vars /\ FairTrackers

----------------------------------------------------------------------------
(* Properties of record_failure (checked under Spec) *)

\* the history of an address after the step
HistoryNext(ip) == IF ip \in DOMAIN failures_by_ip' THEN failures_by_ip'[ip] ELSE <<>>

\* the step is a call record_failure(ip, last'.ts)
CallStep(ip) == now' = now /\ last'.op = "record_failure" /\ last'.ip = ip

\* the entries of h strictly newer than cutoff, in order
RECURSIVE Newer(_, _)
Newer(h, cutoff) ==
    IF h = <<>> THEN <<>>
    ELSE IF h[1] > cutoff THEN <<h[1]>> \o Newer(Tail(h), cutoff)
    ELSE Newer(Tail(h), cutoff)

\* the number of timestamps of address ip newer than now - window once ts is recorded
CountAfter(ip, ts) ==
    Cardinality({i \in 1..Len(History(ip)) : History(ip)[i] > now - time_window})
        + (IF ts > now - time_window THEN 1 ELSE 0)

\* block_ip was invoked in the step for ip, once
InvokedOnce(ip) == Len(blockLog'[ip]) = Len(blockLog[ip]) + 1
\* what that invocation returned
Returned(ip) == blockLog'[ip][Len(blockLog'[ip])].result

\* the configuration the specification asks for
ValidConfig == failure_threshold > 0 /\ time_window > 0

\* C1 as claimed: under a valid configuration, a call for a non-whitelisted
\* address after which the number of retained timestamps newer than now - window
\* is >= failure_threshold leaves the address in the blocked set.
C1_BlockedAtFirstReach ==
    (/\ ValidConfig
     /\ last.op = "record_failure"
     /\ ~last.skipped
     /\ last.count >= failure_threshold)
        => last.ip \in blocked_ips

\* C1 amended: block_ip is invoked at exactly the calls, made for a non-whitelisted
\* address that is not blocked, after which the number of retained timestamps newer
\* than now - window is >= failure_threshold; the address enters the blocked set at
\* exactly such a call whose block_ip returns success, never at another step, and
\* block_ip is never invoked for it while it is blocked.
C1_BlockedWhenReachedAndBlockSucceeds ==
    [][\A ip \in IPs :
         LET qualifies == /\ CallStep(ip)
                          /\ ip \notin safe_ips
                          /\ ip \notin blocked_ips
                          /\ CountAfter(ip, last'.ts) >= failure_threshold
         IN  /\ qualifies => InvokedOnce(ip) /\ (ip \in blocked_ips' <=> Returned(ip))
             /\ ~qualifies => /\ blockLog'[ip] = blockLog[ip]
                              /\ ip \in blocked_ips' <=> ip \in blocked_ips
    ]_vars

\* C1 witness: an address blocked by its second block_ip, the first having failed
C1_Witness ==
    \E ip \in IPs : /\ failure_threshold >= 2
                    /\ Len(blockLog[ip]) = 2
                    /\ ~blockLog[ip][1].result
                    /\ blockLog[ip][2].result
                    /\ ip \in blocked_ips

\* C2: once an address is in the blocked set it stays there, its history is
\* empty, and no later step invokes block_ip for it.
C2_BlockedIsFinal ==
    [][\A ip \in IPs :
         /\ ip \in blocked_ips' => HistoryNext(ip) = <<>>
         /\ ip \in blocked_ips => /\ ip \in blocked_ips'
                                  /\ HistoryNext(ip) = History(ip)
                                  /\ blockLog'[ip] = blockLog[ip]
    ]_vars

\* C2 witness: record_failure was called for an address that is blocked
C2_Witness ==
    /\ last.op = "record_failure"
    /\ last.skipped
    /\ last.ip \in blocked_ips
    /\ History(last.ip) = <<>>

\* C3: a whitelisted address is never blocked, never has a history entry (not
\* even a key in failures_by_ip) and never causes a block_ip invocation.
C3_WhitelistNeverBlocked ==
    \A ip \in safe_ips : /\ ip \notin blocked_ips
                         /\ ip \notin DOMAIN failures_by_ip
                         /\ blockLog[ip] = <<>>

\* C3 witness: record_failure was called for a whitelisted address, after a
\* block of another address
C3_Witness ==
    /\ last.op = "record_failure"
    /\ last.ip \in safe_ips
    /\ blocked_ips # {}

\* the window example: window 60, failures recorded at 0 and at 10, the third
\* at 70, each at its own time
ExampleStep(ip) ==
    /\ CallStep(ip)
    /\ onTime
    /\ ip \notin safe_ips
    /\ ip \notin blocked_ips
    /\ time_window = DefaultWindow
    /\ History(ip) = <<0, TimeStep>>
    /\ now = DefaultWindow + TimeStep
    /\ last'.ts = now

\* a call for a non-whitelisted, non-blocked address that does not reach the
\* threshold leaves exactly the previous entries plus ts that are newer than
\* now - window
WindowRule(ip) ==
    (/\ CallStep(ip)
     /\ ip \notin safe_ips
     /\ ip \notin blocked_ips
     /\ CountAfter(ip, last'.ts) < failure_threshold)
        => HistoryNext(ip) = Newer(Append(History(ip), last'.ts), now - time_window)

\* C4 as claimed: the rule, and in the example 10 and 70 remain at time 70, with
\* no block for threshold 3 and a block for threshold 2.
C4_ExampleKeepsBoundaryEntry ==
    [][\A ip \in IPs :
         /\ WindowRule(ip)
         /\ (ExampleStep(ip) /\ failure_threshold = 3)
               => HistoryNext(ip) = <<TimeStep, now>> /\ blockLog'[ip] = blockLog[ip]
         /\ (ExampleStep(ip) /\ failure_threshold = 2)
               => InvokedOnce(ip)
    ]_vars

\* C4 amended: the rule, and in the example only 70 remains at time 70 (10 is
\* exactly at the cutoff and is evicted), with no block at time 70 for threshold
\* 3 or 2; for threshold 2 block_ip is invoked at time 10, when 0 and 10 are
\* both retained.
C4_WindowKeepsStrictlyNewer ==
    [][\A ip \in IPs :
         /\ WindowRule(ip)
         /\ (ExampleStep(ip) /\ failure_threshold \in {2, 3})
               => HistoryNext(ip) = <<now>> /\ blockLog'[ip] = blockLog[ip]
         /\ (/\ CallStep(ip)
             /\ ip \notin safe_ips
             /\ ip \notin blocked_ips
             /\ time_window = DefaultWindow
             /\ failure_threshold = 2
             /\ History(ip) = <<0>>
             /\ onTime
             /\ now = TimeStep
             /\ last'.ts = now) => InvokedOnce(ip)
    ]_vars

\* C4 witness: the third failure of the example was recorded at time 70 and
\* evicted both earlier entries, one of them exactly at the cutoff
C4_Witness ==
    /\ last.op = "record_failure"
    /\ time_window = DefaultWindow
    /\ failure_threshold = 3
    /\ now = DefaultWindow + TimeStep
    /\ last.ts = now
    /\ onTime
    /\ last.evicted = 2
    /\ last.atCutoff
    /\ ~last.invoked
    /\ History(last.ip) = <<now>>

\* C5: one record_failure call invokes block_ip at most once; when block_ip
\* returns failure the address is not added to the blocked set and keeps its
\* history; and after a failed block_ip the next call for the address that
\* leaves >= failure_threshold retained timestamps invokes block_ip again.
C5_FailedBlockIsRetried ==
    [][\A ip \in IPs :
         /\ blockLog'[ip] = blockLog[ip] \/ InvokedOnce(ip)
         /\ (InvokedOnce(ip) /\ ~Returned(ip))
               => /\ ip \notin blocked_ips'
                  /\ Len(HistoryNext(ip)) >= failure_threshold
         /\ (/\ CallStep(ip)
             /\ blockLog[ip] # <<>>
             /\ ~blockLog[ip][Len(blockLog[ip])].result
             /\ CountAfter(ip, last'.ts) >= failure_threshold)
               => InvokedOnce(ip)
    ]_vars

\* C5 witness: block_ip failed twice for an address, which is still unblocked
C5_Witness ==
    \E ip \in IPs : /\ failure_threshold >= 2
                    /\ Len(blockLog[ip]) = 2
                    /\ ~blockLog[ip][1].result
                    /\ ~blockLog[ip][2].result
                    /\ ip \notin blocked_ips
                    /\ last.op = "record_failure"
                    /\ last.ip = ip

\* block_ip invocations for an address that returned failure
FailedBlocks(ip) ==
    Cardinality({k \in 1..Len(blockLog[ip]) : ~blockLog[ip][k].result})

\* C23 as claimed: under a valid configuration the history of every address
\* holds at most failure_threshold entries in every reachable state, whether or
\* not block_ip succeeds.
C23_HistoryBoundedByThreshold ==
    ValidConfig => \A ip \in IPs : Len(History(ip)) <= failure_threshold

\* C23 amended: the history of every address holds at most failure_threshold - 1
\* entries plus one entry for each block_ip invocation for that address that
\* returned failure; it stays below failure_threshold as long as no block_ip
\* fails.
C23_HistoryBoundedByThresholdAndFailedBlocks ==
    \A ip \in IPs :
        Len(History(ip)) <=
            (IF failure_threshold > 0 THEN failure_threshold - 1 ELSE 0) + FailedBlocks(ip)

\* C23 witness: block_ip failed twice for an address whose history has grown
\* past the threshold, to exactly the amended bound
C23_Witness ==
    \E ip \in IPs : /\ ValidConfig
                    /\ FailedBlocks(ip) = 2
                    /\ Len(History(ip)) = failure_threshold + 1
                    /\ ip \notin blocked_ips

\* the state of an address: Blocked, or Clean (empty history), or Watching
AddrState(ip) ==
    IF ip \in blocked_ips THEN "Blocked"
    ELSE IF History(ip) = <<>> THEN "Clean" ELSE "Watching"

\* the state of an address after the step
AddrStateNext(ip) ==
    IF ip \in blocked_ips' THEN "Blocked"
    ELSE IF HistoryNext(ip) = <<>> THEN "Clean" ELSE "Watching"

\* C24 as claimed: under a valid configuration the state of an address only
\* moves from Clean to Watching and from Watching to Blocked (a first failure
\* that reaches the threshold at once is read as passing through Watching); no
\* step returns an address from Watching or Blocked to Clean.
C24_NeverBackToClean ==
    [][ValidConfig =>
          \A ip \in IPs :
              \/ AddrStateNext(ip) = AddrState(ip)
              \/ AddrState(ip) = "Clean" /\ AddrStateNext(ip) = "Watching"
              \/ AddrState(ip) = "Watching" /\ AddrStateNext(ip) = "Blocked"
              \/ AddrState(ip) = "Clean" /\ AddrStateNext(ip) = "Blocked"
    ]_vars

\* C24 amended: an address moves from Clean to Watching only at a call
\* recording an unexpired failure, to Blocked only at a call that leaves
\* >= failure_threshold retained timestamps and whose block_ip succeeds, and
\* never out of Blocked; a call returns an address from Watching to Clean
\* exactly when the failure it records and every older entry are expired
\* (not newer than now - window), and no other step does.
C24_BackToCleanOnlyByExpiry ==
    [][\A ip \in IPs :
         /\ AddrState(ip) = "Blocked" => AddrStateNext(ip) = "Blocked"
         /\ (AddrState(ip) = "Clean" /\ AddrStateNext(ip) = "Watching")
               => CallStep(ip) /\ last'.ts > Cutoff(now, time_window)
         /\ (AddrState(ip) # "Blocked" /\ AddrStateNext(ip) = "Blocked")
               => /\ CallStep(ip)
                  /\ CountAfter(ip, last'.ts) >= failure_threshold
                  /\ InvokedOnce(ip)
                  /\ Returned(ip)
         /\ (AddrState(ip) = "Watching" /\ AddrStateNext(ip) = "Clean")
               => CallStep(ip) /\ CountAfter(ip, last'.ts) = 0
         /\ (/\ AddrState(ip) = "Watching"
             /\ CallStep(ip)
             /\ ~last'.skipped
             /\ CountAfter(ip, last'.ts) = 0
             /\ failure_threshold > 0) => AddrStateNext(ip) = "Clean"
    ]_vars

\* C24 witness: a call recorded an expired failure for a watched address and
\* evicted it together with the older entries, leaving the address Clean
C24_Witness ==
    /\ ValidConfig
    /\ last.op = "record_failure"
    /\ ~last.skipped
    /\ last.evicted >= 2
    /\ last.count = 0
    /\ AddrState(last.ip) = "Clean"

\* C27: a step changes the history and the blocked-set membership of no
\* address other than the one record_failure was called for (expired entries
\* of the other addresses stay where they are), and no step changes the
\* whitelist, the threshold or the window.
C27_OnlyTheCalledAddressChanges ==
    [][/\ UNCHANGED <<safe_ips, failure_threshold, time_window>>
       /\ \A b \in IPs :
            ~CallStep(b) => /\ HistoryNext(b) = History(b)
                            /\ b \in DOMAIN failures_by_ip' <=> b \in DOMAIN failures_by_ip
                            /\ b \in blocked_ips' <=> b \in blocked_ips
    ]_vars

\* C27 witness: a call for one address evicted an entry of its own history and
\* left an expired entry in the history of another address
C27_Witness ==
    /\ last.op = "record_failure"
    /\ ~last.skipped
    /\ last.evicted >= 1
    /\ time_window > 0
    /\ \E b \in IPs \ {last.ip} :
          \E k \in 1..Len(History(b)) : History(b)[k] <= Cutoff(now, time_window)

----------------------------------------------------------------------------
(* Properties of block_ip (checked under SpecGateway) *)

\* every invocation of block_ip made so far
Invocations == {<<ip, i>> : ip \in IPs, i \in 1..MaxBlockCalls + 1}
Made == {c \in Invocations : c[2] <= Len(blockLog[c[1]])}
Entry(c) == blockLog[c[1]][c[2]]

\* C6: in simulation mode every block_ip returns success, raises nothing and
\* runs no external command, whatever backend was detected.
C6_SimulationHasNoSideEffects ==
    simulation_mode =>
        \A c \in Made : /\ Entry(c).result
                        /\ ~Entry(c).raised
                        /\ Entry(c).ext = 0
                        /\ Entry(c).adds = 0

\* C6 witness: a simulated block_ip on a host without any firewall
C6_Witness ==
    /\ simulation_mode
    /\ firewall_system = "none"
    /\ last.op = "block_ip"
    /\ last.result
    /\ Len(blockLog[last.ip]) = 2

\* no backend was found at construction
NoBackendFound == ufw_probe # "active" /\ iptables_probe # "ok"

\* C7 as claimed: when no backend is found the gateway is disabled and every
\* block_ip returns failure without raising.
C7_DisabledAlwaysFails ==
    NoBackendFound =>
        /\ firewall_system = "none"
        /\ \A c \in Made : ~Entry(c).result /\ ~Entry(c).raised

\* C7 amended: when no backend is found the gateway is disabled and, with
\* simulation mode off, every block_ip returns failure without raising and
\* without running a command (in simulation mode it returns success).
C7_DisabledFailsInRealMode ==
    NoBackendFound =>
        /\ firewall_system = "none"
        /\ \A c \in Made : /\ ~Entry(c).raised
                           /\ Entry(c).ext = 0
                           /\ Entry(c).result = simulation_mode

\* C7 witness: a real block_ip failed on a host without any firewall
C7_Witness ==
    /\ ~simulation_mode
    /\ NoBackendFound
    /\ last.op = "block_ip"
    /\ ~last.result

\* two consecutive block_ip calls for one address, the rule absent at the first
\* and present at the second
AddedThenFound(ip, i) ==
    /\ ~simulation_mode
    /\ i + 1 <= Len(blockLog[ip])
    /\ ~blockLog[ip][i].existed
    /\ blockLog[ip][i + 1].existed

\* C8 as claimed: in real mode, with either backend, two such calls run exactly
\* one add-rule command and both return success (for ufw: the second `ufw deny`
\* exits 0, reporting the existing rule).
C8_OneAddRuleInRealMode ==
    \A ip \in IPs, i \in 1..MaxBlockCalls :
        (/\ AddedThenFound(ip, i)
         /\ firewall_system = "ufw" => blockLog[ip][i + 1].result)
            => /\ blockLog[ip][i].adds + blockLog[ip][i + 1].adds = 1
               /\ blockLog[ip][i].result
               /\ blockLog[ip][i + 1].result

\* C8 amended: with the iptables backend two such calls run exactly one add-rule
\* command (the second call finds the rule with its check and adds nothing) and
\* both return success; with the ufw backend each call runs `ufw deny`, two
\* add-rule commands in all, and both return success when the second exits 0.
C8_OneAddRuleWithIptables ==
    \A ip \in IPs, i \in 1..MaxBlockCalls :
        /\ (AddedThenFound(ip, i) /\ firewall_system = "iptables")
              => /\ blockLog[ip][i].adds + blockLog[ip][i + 1].adds = 1
                 /\ blockLog[ip][i + 1].adds = 0
                 /\ blockLog[ip][i].result
                 /\ blockLog[ip][i + 1].result
                 /\ rules[ip] = 1
        /\ (AddedThenFound(ip, i) /\ firewall_system = "ufw")
              => /\ blockLog[ip][i].adds + blockLog[ip][i + 1].adds = 2
                 /\ blockLog[ip][i].result
                 /\ rules[ip] = 1

\* C8 witness: block_ip was called twice with the iptables backend, the first
\* call adding the rule
C8_Witness ==
    \E ip \in IPs : /\ AddedThenFound(ip, 1)
                    /\ firewall_system = "iptables"
                    /\ AddCalls(ip) = 1
                    /\ last.op = "block_ip"
                    /\ last.ip = ip

\* C26: the backend is the one the probes made at construction select in
\* priority order (ufw whenever it is present and active, iptables only when
\* ufw is not usable and iptables answers, none only when neither does); no
\* step changes it, and every block_ip runs only the commands of that backend
\* (one ufw deny, or an iptables check and at most one append; none when the
\* gateway is disabled or simulating), never a probe.
C26_BackendProbedOnceInPriorityOrder ==
    /\ [](/\ ufw_probe = "active" => firewall_system = "ufw"
          /\ (ufw_probe # "active" /\ iptables_probe = "ok") => firewall_system = "iptables"
          /\ (ufw_probe # "active" /\ iptables_probe # "ok") => firewall_system = "none"
          /\ \A c \in Made :
                Entry(c).ext = (IF simulation_mode \/ firewall_system = "none" THEN 0
                                ELSE IF firewall_system = "ufw" THEN 1
                                ELSE 1 + Entry(c).adds))
    /\ [][UNCHANGED <<firewall_system, simulation_mode, ufw_probe, iptables_probe>>]_vars

\* C26 witness: on a host where both ufw and iptables answer, ufw was chosen
\* and a block_ip ran its one command
C26_Witness ==
    /\ ~simulation_mode
    /\ ufw_probe = "active"
    /\ iptables_probe = "ok"
    /\ firewall_system = "ufw"
    /\ \E c \in Made : Entry(c).ext = 1

----------------------------------------------------------------------------
(* Properties of the timestamp handling (checked under SpecParse) *)

\* the matched text of an auth.log line names a date and time of year y
TextIn(y) ==
    [y |-> y, m |-> MonthNumber(entry.text.b), d |-> entry.text.d, t |-> entry.text.t]

\* C9: a year-less (auth.log) timestamp that yields an event carries the month,
\* day and time of the text, in the current year unless that date is more than
\* one day later than now, and then in the previous year; "Dec 31 23:59:59" read
\* on January 1 becomes December 31 of the previous year; a journald timestamp
\* that yields an event keeps the year of its text.
C9_YearRollover ==
    (parsed.state = "done" /\ parsed.timestamp # ValueError) =>
        /\ entry.source = "auth_log" =>
              /\ parsed.timestamp \in {TextIn(parsed.current_year),
                                       TextIn(parsed.current_year - 1)}
              /\ parsed.timestamp.y = parsed.current_year - 1
                    <=> LaterThan(TextIn(parsed.current_year), parsed.current, 1)
              /\ (/\ entry.text = [b |-> "Dec", d |-> 31, t |-> <<23, 59, 59>>]
                  /\ parsed.current.m = 1
                  /\ parsed.current.d = 1)
                    => parsed.timestamp = [y |-> parsed.current.y - 1, m |-> 12, d |-> 31,
                                           t |-> <<23, 59, 59>>]
        /\ entry.source = "journald" =>
              parsed.timestamp = [y |-> entry.text.y, m |-> entry.text.m,
                                  d |-> entry.text.d, t |-> entry.text.t]

\* C9 witness: "Dec 31 23:59:59" was read on January 1 and resolved to the
\* previous year
C9_Witness ==
    /\ parsed.state = "done"
    /\ entry.source = "auth_log"
    /\ entry.text = [b |-> "Dec", d |-> 31, t |-> <<23, 59, 59>>]
    /\ clock.m = 1
    /\ clock.d = 1
    /\ parsed.timestamp # ValueError
    /\ parsed.timestamp.y = clock.y - 1

----------------------------------------------------------------------------
(* Properties of the program (checked under SpecMain) *)

\* C10: with failure_threshold <= 0 or time_window_seconds <= 0 monitoring does
\* not start: no monitoring thread is launched and no address is ever blocked.
C10_InvalidConfigNeverStarts ==
    ~ValidConfig => /\ threads = <<>>
                    /\ monitor_thread = 0
                    /\ blocked_ips = {}

----------------------------------------------------------------------------
(* Properties of the lifecycle (checked under SpecLifecycle) *)

\* the lifecycle state of the parser, read off its fields: Running while
\* is_active is set; Idle before any thread was started; Stopping while
\* stop_monitoring waits in its join; Stopped once it has returned.  Exited
\* (sys.exit) and Failed (the thread ended in its except branch) are the states
\* the four-state machine has no name for.
Lifecycle ==
    IF caller = "exited" THEN "Exited"
    ELSE IF is_active THEN "Running"
    ELSE IF monitor_thread = 0 THEN "Idle"
    ELSE IF caller = "joining" THEN "Stopping"
    ELSE IF threads[monitor_thread].end = "error" THEN "Failed"
    ELSE "Stopped"

Transitions == {<<"Idle", "Running">>, <<"Running", "Stopping">>, <<"Stopping", "Stopped">>}

\* C11: over any sequence of start and stop calls, every change among Idle,
\* Running, Stopping and Stopped is Idle -> Running, Running -> Stopping or
\* Stopping -> Stopped; a stopped parser never returns to Running.
C11_LifecycleIsOneWay ==
    [][(/\ Lifecycle \in {"Idle", "Running", "Stopping", "Stopped"}
        /\ Lifecycle' \in {"Idle", "Running", "Stopping", "Stopped"}
        /\ Lifecycle' # Lifecycle)
       => <<Lifecycle, Lifecycle'>> \in Transitions]_vars

\* what stop_monitoring may touch: nothing but is_active and the caller's
\* position in the call
StopLeavesAlone ==
    UNCHANGED <<monitor_thread, threads, lines, auth_log_ok, journalctl_ok,
                detectorVars, gatewayVars, hostVars, last>>

\* C12: stop_monitoring can be called in any lifecycle state and does not
\* raise (the caller is waiting in the join or has returned); a stop on a
\* parser that is not active changes none of its fields; and the wait of a
\* call is bounded: while it waits, either the join can return or the joined
\* thread is on its way to its end, and is not held by anything.
C12_StopIsIdempotentAndBounded ==
    /\ [][StopMonitoring => /\ ~is_active'
                            /\ caller' \in {"idle", "joining"}
                            /\ caller' = "joining" => Alive(monitor_thread)
                            /\ StopLeavesAlone]_vars
    /\ [][(StopMonitoring \/ StopReturn) /\ ~is_active
            => UNCHANGED is_active /\ StopLeavesAlone]_vars
    /\ [](caller = "joining" => ~is_active /\ (ENABLED StopReturn
                                               \/ ENABLED ThreadStep(monitor_thread)))

\* stop_monitoring has returned although the journald thread it joined is
\* still alive, waiting for a line
C12_Witness ==
    /\ caller = "idle"
    /\ ~is_active
    /\ Alive(monitor_thread)
    /\ Stalled(monitor_thread)

\* thread i has ended, has lost its source
Ended(i) == i <= Len(threads) /\ threads[i].pc = "done"
SourceLost(i) == i <= Len(threads) /\ threads[i].lost

\* C13: once the flag is cleared, a monitoring thread that is still alive goes
\* on by itself to its loop test and ends there: at no moment does it wait for
\* a line that may never arrive.
C13_CancelledThreadEnds ==
    \A i \in DOMAIN threads :
        ~is_active /\ caller # "exited" /\ ~Ended(i) => ENABLED ThreadStep(i)

\* stop_monitoring returns in this step
StopReturns == (StopMonitoring /\ caller' = "idle") \/ StopReturn

\* C14: when stop_monitoring returns, the source of the thread it stopped is
\* released: the file is closed, the journalctl subprocess terminated.
C14_StopReleasesSource ==
    [][StopReturns /\ monitor_thread # 0 => ~threads'[monitor_thread].held]_vars

\* start_monitoring started a thread on this source in this step
StartedOn(source) ==
    /\ Len(threads') = Len(threads) + 1
    /\ threads'[Len(threads')].source = source
    /\ monitor_thread' = Len(threads')
    /\ caller' = "idle"

\* C15: a start picks the file tail whenever auth.log exists and is readable,
\* otherwise journalctl when it is available, otherwise it exits the process;
\* after the exit nothing is started or run any more.
C15_SourceSelection ==
    /\ [][StartMonitoring /\ ~is_active =>
            /\ auth_log_ok => StartedOn("auth_log")
            /\ ~auth_log_ok /\ journalctl_ok => StartedOn("journald")
            /\ ~auth_log_ok /\ ~journalctl_ok => caller' = "exited" /\ threads' = threads]_vars
    /\ [][caller = "exited" => caller' = "exited" /\ Len(threads') = Len(threads)]_vars

\* the file was chosen first; after it was removed a second start fell back
\* to journalctl
C15_Witness ==
    /\ Len(threads) = 2
    /\ threads[1].source = "auth_log"
    /\ threads[2].source = "journald"
    /\ ~auth_log_ok

\* C16: when the source of a running thread is lost for good, the pipeline
\* eventually stops: the thread does not go on polling a source that has gone.
\* (The claim asks for more: that the loss is then reported and the process
\* exits.)
C16_SourceLossIsFatal ==
    \A i \in 1..MaxStarts : [](SourceLost(i) /\ ~Ended(i) => <>Ended(i))

\* C17: after a read error the poll loop keeps running: the thread is back at
\* its loop test and is_active is as it was.
C17_ReadErrorIsAbsorbed ==
    [][\A i \in DOMAIN threads :
          ThreadReadError(i) => threads'[i].pc = "check" /\ is_active' = is_active]_vars

\* C19: a monitoring thread ends only on stop (the loop test), or because its
\* source is lost: every thread that has ended was cancelled, or its source
\* had gone.
C19_ThreadEndsOnlyOnStopOrLoss ==
    \A i \in DOMAIN threads :
        threads[i].pc = "done" =>
            \/ threads[i].end = "cancelled"
            \/ threads[i].lost
            \/ threads[i].source = "auth_log" /\ ~auth_log_ok

\* C28: while the parser is running (is_active) no step creates a monitoring
\* thread or replaces the one start_monitoring holds, and a start_monitoring
\* call made then changes nothing of the parser: the running thread stays as
\* it is.
C28_StartWhileRunningIsNoOp ==
    [][is_active =>
          /\ Len(threads') = Len(threads)
          /\ monitor_thread' = monitor_thread
          /\ (last'.op = "start_monitoring" /\ last' # last) => UNCHANGED parserVars
    ]_vars

\* C28 witness: start_monitoring was called while the one thread was running
\* and returned at once
C28_Witness ==
    /\ last.op = "start_monitoring"
    /\ last.skipped
    /\ is_active
    /\ Len(threads) = 1
    /\ monitor_thread = 1
    /\ threads[1].pc \in {"check", "read"}

\* C30: a start_monitoring that ends in sys.exit(1) because no log source is
\* usable leaves the parser as it was (no thread started, is_active unchanged),
\* and is_active is true only while a monitoring thread has been started.
C30_FailedStartLeavesParserUnchanged ==
    /\ [](is_active => monitor_thread # 0)
    /\ [][(caller # "exited" /\ caller' = "exited")
             => UNCHANGED <<is_active, monitor_thread, threads>>]_vars

----------------------------------------------------------------------------
(* Properties of the pipeline (checked under SpecPipeline) *)

\* thread i takes a line from its source in this step
TakesLine(i) == threads'[i].pos # threads[i].pos /\ threads[i].pc # "open"

\* the line thread i is about to take
Taken(i) == lines[threads[i].pos + 1]

\* C18: a line that does not match the failure pattern, and a matching line
\* whose timestamp is no date, produce no event: record_failure is not called,
\* histories, blocked set and firewall are unchanged, and the thread is back at
\* its loop test, one line further, with monitoring still active.
C18_UnusableLineIsDropped ==
    [][\A i \in DOMAIN threads :
          TakesLine(i) /\ Taken(i).kind \in {"other", "badtime"} =>
              /\ UNCHANGED <<failures_by_ip, blocked_ips, rules, blockLog, last>>
              /\ threads'[i] = [threads[i] EXCEPT !.pc = "check", !.pos = @ + 1]
              /\ is_active' = is_active]_vars

\* a thread dropped a line with a bad timestamp and then recorded the failure
\* of the line after it
C18_Witness ==
    \E i \in DOMAIN threads :
        /\ threads[i].pos = 2
        /\ lines[1].kind = "badtime"
        /\ lines[2].kind = "failure"
        /\ lines[2].ip = "10.0.0.2"
        /\ last.op = "record_failure"
        /\ last.ip = "10.0.0.2"
        /\ "10.0.0.1" \notin DOMAIN failures_by_ip
        /\ History("10.0.0.2") # <<>>

AboutToRecord(i) ==
    /\ caller # "exited"
    /\ threads[i].pc = "read"
    /\ threads[i].pos < Delivered(i)
    /\ Taken(i).kind = "failure"

\* C25: over every sequence of start, stop and restart, at most one thread at a
\* time is about to run record_failure on the detector (record_failure takes
\* no lock, so two threads each holding a failure line run it unserialised).
C25_OneWriterAtATime ==
    Cardinality({i \in DOMAIN threads : AboutToRecord(i)}) <= 1

\* C29: once stop_monitoring has returned (and until another start) no thread
\* takes a further line, so neither record_failure nor block_ip runs again.
C29_NothingProcessedAfterStop ==
    [][Lifecycle = "Stopped" => \A i \in DOMAIN threads : ~TakesLine(i)]_vars

----------------------------------------------------------------------------
(* Properties of the pipeline on a faulty host (checked under SpecFaults) *)

\* C21: a firewall command that hangs does not hold the monitoring thread: a
\* thread inside block_ip always has a step to take (the command is given up
\* after a timeout and block_ip returns failure), and once stop_monitoring has
\* returned the monitoring thread has ended.
C21_HungCommandIsGivenUp ==
    /\ \A i \in DOMAIN threads : Hung(i) => ENABLED ThreadStep(i)
    /\ (caller = "idle" /\ ~is_active /\ monitor_thread # 0)
          => threads[monitor_thread].pc = "done"

\* thread i is tailing the file: its handle is open on the file that exists
Tailing(i) ==
    /\ threads[i].source = "auth_log"
    /\ threads[i].pc \in {"check", "read"}
    /\ ~threads[i].lost

\* C22: the file tail starts at the end of the file as it is when the thread
\* opens it, and every line appended while a thread is tailing the file, also
\* after a truncation, lies ahead of the thread's read position, so that a
\* later readline returns it.
C22_TailSurvivesTruncation ==
    [][\A i \in DOMAIN threads :
          /\ (threads[i].source = "auth_log" /\ threads[i].pc = "open"
                 /\ threads'[i].pc = "check") => threads'[i].pos = Len(lines)
          /\ (Tailing(i) /\ Len(lines') > Len(lines)) => threads'[i].pos < Len(lines')
    ]_vars

----------------------------------------------------------------------------
(* Properties of the price trackers (checked under SpecTrackers) *)

\* a track_product call is in progress
InCall == call.pc # "idle"

\* C31: a track_product call makes at most max_retries attempts; every
\* attempt ends in a return or break (the call is over) or back at the loop
\* test with the retry counter incremented, whichever failure occurs; and
\* every call returns.
C31_TrackProductTerminates ==
    /\ [](InCall => call.attempts <= max_retries /\ call.attempts <= call.retries + 1)
    /\ [][(InCall /\ call.pc # "while") =>
             \/ call'.pc = "idle"
             \/ call'.pc = "while" /\ call'.retries > call.retries
             \/ call'.pc \in {"navigate", "extract"} /\ call'.retries = call.retries
          ]_vars
    /\ [](InCall => <>(~InCall))

\* C31 witness: a call has used up all its attempts, each one failed, and has
\* returned
C31_Witness ==
    /\ observed.outcome = "gave_up"
    /\ max_retries = MaxRetries
    /\ observed.attempts = max_retries
    /\ ~InCall

\* driver d is the one the attempt in progress is using
InUse(d) == InCall /\ call.pc \in {"navigate", "extract"} /\ call.driver = d

\* C32: every driver track_product has initialized has been quit exactly once
\* when the attempt that used it is over (at the next loop test, in the next
\* attempt and after the return), and no driver is quit more than once.
C32_EachDriverQuitOnce ==
    \A d \in DOMAIN drivers : drivers[d] = (IF InUse(d) THEN 0 ELSE 1)

\* the index of the last row written for product p before row k, 0 if none
RECURSIVE RowBefore(_, _)
RowBefore(p, k) ==
    IF k <= 1 THEN 0
    ELSE IF rows[k - 1].product = p THEN k - 1
    ELSE RowBefore(p, k - 1)

\* C33: in both trackers a step that writes a row writes one row, for a
\* product that has no entry in product_history or whose entry differs from
\* the price written, and sets the entry to that price; no other step changes
\* product_history; the entry of a product is the price of its last row; and
\* no two consecutive rows of one product carry the same price.
C33_RowOnlyOnChange ==
    /\ [][/\ rows' # rows =>
               \E p \in Products, price \in Prices :
                  /\ rows' = Append(rows, [product |-> p, price |-> price])
                  /\ ~(p \in DOMAIN product_history /\ product_history[p] = price)
                  /\ product_history'[p] = price
                  /\ \A a \in DOMAIN product_history :
                        a # p => product_history'[a] = product_history[a]
          /\ rows' = rows => product_history' = product_history
         ]_vars
    /\ [](\A k \in 1..Len(rows) :
             /\ RowBefore(rows[k].product, k) # 0
                   => rows[RowBefore(rows[k].product, k)].price # rows[k].price
             /\ RowBefore(rows[k].product, Len(rows) + 1) = k
                   => product_history[rows[k].product] = rows[k].price)

\* C33 witness: two rows with different prices were written for one product,
\* and a third observation of the same price as the last row wrote none
C33_Witness ==
    /\ Len(rows) = 2
    /\ rows[1].product = rows[2].product
    /\ observed.outcome = "unchanged"
    /\ observed.product = rows[2].product
    /\ observed.price = rows[2].price

\* the step is the loop body of PriceTracker.track_prices on a product that
\* has no id, or whose page scrape and API lookup both fail
SkipStep ==
    /\ tracker = "PriceTracker"
    /\ checks' = checks + 1
    /\ \/ Head(products) = ""
       \/ ~observed'.scraped /\ observed'.details \in {"none", "bad"}

\* C34: the loop body of track_prices on a product with no id, or whose page
\* scrape and API lookup both fail, writes no row and leaves product_history
\* as it is, and the loop goes on with the remaining products of the
\* iteration, each of which can be processed.
C34_FailedProductIsSkipped ==
    /\ [][SkipStep => /\ UNCHANGED <<rows, product_history, tracker>>
                      /\ products' = Tail(products)]_vars
    /\ []((tracker = "PriceTracker" /\ products # <<>>)
             => ENABLED (\E scrape \in Scrapes, details \in Details :
                            ProcessProduct(scrape, details, "ok")))

\* C34 witness: a product whose scrape and lookup both failed was skipped
\* after a row had been written, and another product of the iteration remains
C34_Witness ==
    /\ tracker = "PriceTracker"
    /\ observed.outcome = "no_price"
    /\ observed.product \in Products
    /\ rows # <<>>
    /\ products # <<>>

====
